---- MODULE Spec2Model ----
(***************************************************************************)
(* The accounting task pipeline of core/task_engine.py and                 *)
(* core/llm_client.py: TaskEngine.execute_accounting_task checks its       *)
(* preconditions, LLMClient.process_accounting_task runs one               *)
(* _process_single_data call per evidence item on a ThreadPoolExecutor,    *)
(* collects the futures with as_completed, aggregates, and the engine      *)
(* writes the aggregated records with ExcelManager.write_results.          *)
(* Further sections model InvoiceChecker.check_invoice, single calls of    *)
(* _create_fallback_response, _process_single_data and write_results, and  *)
(* the batch invoice checks check_invoices_async and run_invoice_check.    *)
(***************************************************************************)
EXTENDS Integers, Sequences, FiniteSets, TLC

\* Largest batch (number of entries of evidence_data["data"]).
MaxItems == 3
\* Largest max_workers value a run is started with.
MaxWorkers == 2
\* Largest number of records in the "results" list of one LLM response.
MaxRecords == 2
\* Largest number of rule ids one check_invoice call is given.
MaxRuleIds == 2
\* Largest number of files one batch invoice check is given.
MaxFiles == 2

VARIABLES
    \* arguments and environment of one execute_accounting_task call
    task_known,        \* task_config_id in self.task_configs
    evidence_data,     \* the evidence_data argument
    output_config,     \* custom_output_config or the task's output_config
    excel_manager,     \* the excel_manager argument
    max_workers,       \* the max_workers argument
    client_set,        \* LLMClient.client is set (an API key was given)
    cb_raises_on,      \* data_id on which the caller's progress callback raises (0: never)
    \* TaskEngine
    pc,                \* position of the calling thread
    engine_excel_manager, \* TaskEngine.excel_manager
    process_called,    \* process_accounting_task has been invoked
    llm_result,        \* value returned by process_accounting_task
    result,            \* value returned by execute_accounting_task
    \* LLMClient.process_accounting_task
    fut,               \* state of each submitted future
    llm,               \* what the LLM call of each item did
    snap,              \* futures found finished when as_completed was called, not yet yielded
    waiterQ,           \* futures finished afterwards, in finishing order, not yet yielded
    completed_count,
    all_results,
    total_tokens,
    processing_errors,
    raw_responses,
    cb_log,            \* arguments of every progress_callback invocation, in order
    llm_calls,         \* number of chat.completions.create calls made
    \* ExcelManager
    workbook,          \* the caller's workbook
    write_calls,       \* number of ExcelManager.write_results calls
    \* InvoiceChecker.check_invoice
    inv_configured,    \* is_configured()
    inv_file_valid,    \* validate_file_data(file_data)["valid"]
    inv_rule_ids,      \* the rule_ids argument
    inv_pc,            \* position of the check_invoice call
    inv_pos,           \* number of rule ids the loop has gone through
    inv_llm,           \* what self.llm did for each rule applied, in order
    inv_checks,        \* the checks list
    inv_result,        \* value returned by check_invoice
    \* a single function call
    fn_arg,            \* the function called and its arguments
    fn_ret,            \* the value it returned
    \* one check_invoices_async call
    files_data,        \* the files_data argument
    async_pc,          \* position of the call
    tasks,             \* state of the task of each file, by position in the tasks list
    task_result,       \* what the check_invoice call of each task did
    task_order,        \* positions of the tasks in the order their calls finished
    async_return,      \* the list check_invoices_async returned
    \* one run_invoice_check call
    selected_files,    \* the file data of selected_files, by position
    session_max_workers, \* st.session_state.max_workers
    run_pc,            \* position of the call
    futures,           \* state of the future of each selected file
    future_result,     \* what the check_invoice call of each future did
    future_order,      \* positions of the files in the order their calls finished
    run_snap,          \* futures found finished when as_completed was called, not yet yielded
    run_waiterQ,       \* futures finished afterwards, in finishing order, not yet yielded
    results,           \* the results dict
    completed,         \* the completed counter
    check_results      \* st.session_state.check_results

inputs == <<task_known, evidence_data, output_config, excel_manager,
            max_workers, client_set, cb_raises_on>>
engine == <<pc, engine_excel_manager, process_called, llm_result, result>>
pool   == <<fut, llm, snap, waiterQ>>
accum  == <<completed_count, all_results, total_tokens, processing_errors,
            raw_responses, cb_log>>
excel  == <<workbook, write_calls>>
pipeline == <<inputs, engine, pool, accum, llm_calls, excel>>
invoice == <<inv_configured, inv_file_valid, inv_rule_ids, inv_pc, inv_pos,
             inv_llm, inv_checks, inv_result>>
fn     == <<fn_arg, fn_ret>>
async_batch == <<files_data, async_pc, tasks, task_result, task_order, async_return>>
run_batch == <<selected_files, session_max_workers, run_pc, futures, future_result,
               future_order, run_snap, run_waiterQ, results, completed, check_results>>
batch  == <<async_batch, run_batch>>
vars   == <<pipeline, invoice, fn, batch>>

----------------------------------------------------------------------------
(* Values *)

\* A dict that has not been assigned yet.
NotReturned == [returned |-> FALSE]

\* evidence_data that is None or {}.
NoEvidence == [present |-> FALSE]

\* evidence_data with n entries; the dict keeps its keys in insertion order 1..n.
Evidence(s, n) == [present |-> TRUE, success |-> s, data |-> 1..n]

EvidenceInputs ==
    {NoEvidence} \cup {Evidence(s, n) : s \in BOOLEAN, n \in 0..MaxItems}

required_keys == <<"target_sheet", "start_row", "column_definitions">>

RequiredKeySet == {required_keys[k] : k \in 1..Len(required_keys)}

\* column_definitions: "ok" is a mapping with the columns row_number and
\* data_id, "result_data" one with the columns row_number, data_id and
\* result_data, "empty" is {}, "no_header" is a mapping whose first column has
\* no "header" entry.
ColumnKinds == {"ok", "result_data", "empty", "no_header"}

\* The column_definitions the runs are given; a mapping with a column without
\* header is given to write_results itself.
RunColumnKinds == ColumnKinds \ {"no_header"}

OutputConfigInputs ==
    {[keys |-> K, cols |-> c] : K \in SUBSET RequiredKeySet, c \in RunColumnKinds \cup {"absent"}}

OutputConfigs ==
    {c \in OutputConfigInputs : (c.cols = "absent") <=> ("column_definitions" \notin c.keys)}

\* The excel_manager argument: None, a manager without a workbook, a loaded one.
ExcelManagers == {"none", "no_workbook", "loaded"}

NumItems == IF evidence_data.present THEN Cardinality(evidence_data.data) ELSE 0

Items == IF evidence_data.present THEN evidence_data.data ELSE {}

\* The k-th record of the LLM response for item i. data_id 0 is the empty string:
\* the first record of a response leaves it empty, the later ones give it.
\* result_data <<i, k>> stands for the dict {"i": i, "k": k}.
LLMRecord(i, k) ==
    [data_id |-> IF k = 1 THEN 0 ELSE i, task_type |-> "t", result_data |-> <<i, k>>]

LLMRecords(i, n) == [k \in 1..n |-> LLMRecord(i, k)]

\* Response texts. A text is a sequence of tokens: a JSON object (with the
\* document it denotes), a JSON array, a Markdown fence with or without the
\* json tag, or prose. Prose and arrays contain no brace and no fence.
ObjectTok(v) == [tok |-> "object", value |-> v]

ArrayTok == [tok |-> "array", value |-> [json_array |-> <<1, 2>>]]

ProseTok(i) == [tok |-> "prose", value |-> [prose |-> i]]

FenceJsonTok == [tok |-> "fence_json", value |-> [prose |-> 0]]

FenceTok == [tok |-> "fence", value |-> [prose |-> 0]]

JsonText(v) == <<ObjectTok(v)>>

GarbageText(i) == <<ProseTok(i)>>

\* A JSON object between two pieces of prose.
ProseWrappedText(v, i) == <<ProseTok(i), ObjectTok(v), ProseTok(i)>>

\* A JSON object in a fenced code block.
FencedText(v) == <<FenceJsonTok, ObjectTok(v), FenceTok>>

\* A JSON array alone, and one after a fence that is never closed.
ArrayText == <<ArrayTok>>

OpenFenceArrayText == <<FenceTok, ArrayTok>>

ValidDocument(i, n) ==
    [results |-> LLMRecords(i, n), summary |-> [total_processed |-> n]]

\* A conforming document whose record carries an "amount", a key
\* AccountingResult does not declare (models.py 9-23).
AmountDocument(i) ==
    [results |-> <<[data_id |-> i, task_type |-> "t", result_data |-> <<i, 1>>,
                    amount |-> [type |-> "int", value |-> 5]]>>,
     summary |-> [total_processed |-> 1]]

\* A JSON object that lacks the required "summary".
InvalidDocument(i) == [results |-> LLMRecords(i, 1)]

\* The statuses validate_status accepts (models.py 19): "completed" stands for
\* the Japanese word for done, "error" for error, "needs_review" for to be
\* confirmed, "in_progress" for being processed.
ValidStatuses == {"completed", "error", "needs_review", "in_progress"}

\* JSON objects LLMAccountingResponse rejects: no summary, a record without
\* task_type, a status outside ValidStatuses, a negative total_processed, a
\* summary without total_processed, a negative matched_count, unmatched_count
\* or require_review_count.
InvalidDocuments(i) ==
    {InvalidDocument(i),
     [results |-> <<[data_id |-> i, result_data |-> <<i, 1>>]>>,
      summary |-> [total_processed |-> 1]],
     [results |-> <<[data_id |-> i, task_type |-> "t", status |-> "other",
                     result_data |-> <<i, 1>>]>>,
      summary |-> [total_processed |-> 1]],
     [results |-> LLMRecords(i, 1), summary |-> [total_processed |-> -1]],
     [results |-> LLMRecords(i, 1), summary |-> [total_amount |-> 0]],
     [results |-> <<>>, summary |-> [total_processed |-> 1, matched_count |-> -1]],
     [results |-> LLMRecords(i, 1),
      summary |-> [total_processed |-> 2, unmatched_count |-> -2]],
     [results |-> LLMRecords(i, 1),
      summary |-> [total_processed |-> 0, require_review_count |-> -1]]}

\* A conforming JSON object whose summary gives every count.
CountsDocument(i) ==
    [results |-> LLMRecords(i, 1),
     summary |-> [total_processed |-> 1, total_amount |-> -1, matched_count |-> 0,
                  unmatched_count |-> 1, require_review_count |-> 0]]

\* A conforming JSON object whose record gives a status and notes.
StatusDocument(i) ==
    [results |-> <<[data_id |-> i, task_type |-> "t", status |-> "needs_review",
                    result_data |-> <<i, 1>>, notes |-> "n"]>>,
     summary |-> [total_processed |-> 1]]

Usage(i) == 2 ^ (i - 1)

\* Texts that are neither a document nor plain prose: a JSON array, and a
\* conforming object wrapped in prose or in a fenced code block.
WrappedTexts(i) ==
    {ArrayText, ProseWrappedText(ValidDocument(i, 1), i), FencedText(ValidDocument(i, 1))}

\* The numbers of records in the conforming responses of item i: every number
\* up to MaxRecords for the first item, MaxRecords for the others.
RecordCounts(i) == IF i = 1 THEN 0..MaxRecords ELSE {MaxRecords}

\* The response texts of item i: conforming documents for every item, prose
\* for the first two; the document failing the schema, the wrapped ones and
\* the one with an amount are tried on the first item.
ResponseTexts(i) ==
    (IF i <= 2 THEN {GarbageText(i)} ELSE {})
    \cup (IF i = 1
          THEN {JsonText(InvalidDocument(i)), JsonText(AmountDocument(i))} \cup WrappedTexts(i)
          ELSE {})
    \cup {JsonText(ValidDocument(i, n)) : n \in RecordCounts(i)}

\* What chat.completions.create can do for item i: raise, or return a text with
\* its token usage.
LLMOutcomes(i) ==
    {[kind |-> "raise"]}
    \cup {[kind |-> "text", text |-> t, usage |-> Usage(i)] : t \in ResponseTexts(i)}

NotCalled == [kind |-> "none"]

\* The request of an item was sent and has not returned or raised yet.
InCall == [kind |-> "calling"]

----------------------------------------------------------------------------
(* Pure functions *)

RECURSIVE total_amount(_)
RECURSIVE total_amount_default_one(_)

SeqToSet(s) == {s[k] : k \in 1..Len(s)}

\* Mutant: an empty data dict is accepted.
validate_evidence_data_accepts_empty(e) ==
    IF ~e.present
    THEN [valid |-> FALSE, errors |-> <<"empty">>]
    ELSE LET e1 == IF ~e.success THEN <<"not_processed">> ELSE <<>>
         IN  [valid |-> e1 = <<>>, errors |-> e1]

\* BaseDataValidator.validate_evidence_data
validate_evidence_data(e) ==
    IF ~e.present
    THEN [valid |-> FALSE, errors |-> <<"empty">>]
    ELSE LET e1 == IF ~e.success THEN <<"not_processed">> ELSE <<>>
             e2 == IF e.data = {} THEN <<"empty">> ELSE <<>>
         IN  [valid |-> (e1 \o e2) = <<>>, errors |-> e1 \o e2]

\* Mutant: column_definitions is not among the required keys.
validate_output_config_two_keys(c) ==
    LET missing == SelectSeq(<<"target_sheet", "start_row">>, LAMBDA k : k \notin c.keys)
    IN  [valid |-> missing = <<>>, errors |-> missing]

\* BaseDataValidator.validate_output_config
validate_output_config(c) ==
    LET missing == SelectSeq(required_keys, LAMBDA k : k \notin c.keys)
    IN  [valid |-> missing = <<>>, errors |-> missing]

\* json.loads: the text is one JSON document and nothing else.
json_loads(t) ==
    IF Len(t) = 1 /\ t[1].tok \in {"object", "array"}
    THEN [ok |-> TRUE, value |-> t[1].value]
    ELSE [ok |-> FALSE]

\* The parsed value is a dict (a JSON object).
is_dict(v) == "json_array" \notin DOMAIN v

\* AccountingResult(**rec): the required fields are present and the status, if
\* given, is one validate_status accepts (models.py 11-22).
record_valid(rec) ==
    /\ {"data_id", "task_type", "result_data"} \subseteq DOMAIN rec
    /\ "status" \in DOMAIN rec => rec.status \in ValidStatuses

\* The optional counts of AccountingSummary that must not be negative (models.py
\* 30-32).
OptionalCounts == {"matched_count", "unmatched_count", "require_review_count"}

\* AccountingSummary(**summary): total_processed is required and not negative
\* (models.py 28); a count that is given is not negative (30-32).
summary_valid(summary) ==
    /\ "total_processed" \in DOMAIN summary
    /\ summary.total_processed >= 0
    /\ \A f \in OptionalCounts \cap DOMAIN summary : summary[f] >= 0

\* LLMAccountingResponse(**json_data) is accepted.
schema_valid(v) ==
    /\ "results" \in DOMAIN v
    /\ "summary" \in DOMAIN v
    /\ \A k \in 1..Len(v.results) : record_valid(v.results[k])
    /\ summary_valid(v.summary)

\* d.get(key, default) of a dict d.
get(d, key, default) == IF key \in DOMAIN d THEN d[key] ELSE default

\* model_dump of a validated LLMAccountingResponse: every declared field, the
\* optional ones with their defaults (models.py 10-15, 27-31, 36-38). "None"
\* stands for None.
model_dump(v) ==
    [results |-> [k \in 1..Len(v.results) |->
                    [data_id |-> v.results[k].data_id,
                     task_type |-> v.results[k].task_type,
                     status |-> get(v.results[k], "status", "completed"),
                     result_data |-> v.results[k].result_data,
                     calculations |-> get(v.results[k], "calculations", "None"),
                     notes |-> get(v.results[k], "notes", "None")]],
     summary |-> [total_processed |-> v.summary.total_processed,
                  total_amount |-> get(v.summary, "total_amount", "None"),
                  matched_count |-> get(v.summary, "matched_count", "None"),
                  unmatched_count |-> get(v.summary, "unmatched_count", "None"),
                  require_review_count |-> get(v.summary, "require_review_count", "None")],
     processing_notes |-> get(v, "processing_notes", "None")]

\* _process_single_data, lines 227-230: an empty data_id becomes the item's.
fill_data_id(recs, data_id) ==
    [k \in 1..Len(recs) |->
        IF recs[k].data_id = 0 THEN [recs[k] EXCEPT !.data_id = data_id] ELSE recs[k]]

\* str.find(marker): the first position where the marker occurs, 0 for none
\* (Python's -1). The plain fence also occurs at the start of a json fence.
Occurs(tk, marker) ==
    CASE marker = "fence_json" -> tk.tok = "fence_json"
      [] marker = "fence" -> tk.tok \in {"fence_json", "fence"}
      [] marker = "brace" -> tk.tok = "object"

find(t, marker) ==
    IF \E k \in 1..Len(t) : Occurs(t[k], marker)
    THEN CHOOSE k \in 1..Len(t) :
            Occurs(t[k], marker) /\ \A j \in 1..(k - 1) : ~Occurs(t[j], marker)
    ELSE 0

\* str.rfind of the closing brace in the text from a position on: the position
\* of the last closing brace, 0 for none.
rfind_brace(t, from) ==
    IF \E k \in from..Len(t) : t[k].tok = "object"
    THEN CHOOSE k \in from..Len(t) :
            t[k].tok = "object" /\ \A j \in (k + 1)..Len(t) : t[j].tok # "object"
    ELSE 0

\* Lines 378-390: where the JSON part starts, by the first of the markers
\* the json fence, the plain fence and the opening brace that occurs at all; a
\* fence is skipped, a brace kept.
json_start(t) ==
    IF find(t, "fence_json") # 0 THEN find(t, "fence_json") + 1
    ELSE IF find(t, "fence") # 0 THEN find(t, "fence") + 1
    ELSE IF find(t, "brace") # 0 THEN find(t, "brace")
    ELSE 1

\* Lines 392-396: the part handed to json.loads, up to the last closing brace
\* or, without one, to the end of the text.
json_text(t) ==
    LET last_brace == rfind_brace(t, json_start(t))
    IN  SubSeq(t, json_start(t), IF last_brace # 0 THEN last_brace ELSE Len(t))

\* Lines 416-426: the default error response.
default_response(data_id, error_message) ==
    [results |-> <<[data_id |-> data_id, task_type |-> "unknown", status |-> "error",
                    result_data |-> <<>>, notes |-> error_message]>>,
     summary |-> [total_processed |-> 0, require_review_count |-> 1],
     processing_notes |-> error_message]

Raise(e) == [raised |-> e]

Raised(r) == "raised" \in DOMAIN r

\* Lines 375-410 of _create_fallback_response, the body of its try: the value
\* returned, or the exception raised.
fallback_try(t, data_id) ==
    LET p == json_loads(json_text(t))
    IN  IF ~p.ok
        THEN Raise("JSONDecodeError")
        ELSE IF "results" \in DOMAIN p.value
        THEN [p.value EXCEPT !.results =
                [k \in 1..Len(@) |->
                   IF "data_id" \notin DOMAIN @[k]
                   THEN [x \in DOMAIN @[k] \cup {"data_id"} |->
                           IF x = "data_id" THEN data_id ELSE @[k][x]]
                   ELSE @[k]]]
        ELSE p.value

\* LLMClient._create_fallback_response: whatever the try raises gives the
\* default error response (lines 412-426).
create_fallback_response(t, data_id, error_message) ==
    LET r == fallback_try(t, data_id)
    IN  IF Raised(r) THEN default_response(data_id, error_message) ELSE r

\* Lines 194-238 of _process_single_data, the body of its outer try without the
\* inner handler: the value returned, or the exception raised.
validated_try(o, data_id) ==
    IF o.kind = "raise"
    THEN Raise("APIError")
    ELSE LET p == json_loads(o.text)
         IN  IF ~p.ok THEN Raise("JSONDecodeError")
             ELSE IF ~is_dict(p.value) THEN Raise("TypeError")
             ELSE IF ~schema_valid(p.value) THEN Raise("ValidationError")
             ELSE [success |-> TRUE,
                   data |-> model_dump([p.value EXCEPT
                                           !.results = fill_data_id(@, data_id)]),
                   raw_response |-> o.text,
                   tokens_used |-> o.usage]

\* Lines 194-250: the inner handler catches JSONDecodeError and ValidationError
\* and returns the fallback response, marked unsuccessful.
process_single_data_try(o, data_id) ==
    LET r == validated_try(o, data_id)
    IN  IF Raised(r) /\ r.raised \in {"JSONDecodeError", "ValidationError"}
        THEN [success |-> FALSE,
              data |-> create_fallback_response(o.text, data_id, r.raised),
              raw_response |-> o.text,
              error |-> "validation_error",
              tokens_used |-> o.usage]
        ELSE r

\* Mutant: no outer handler, the exception leaves _process_single_data.
process_single_data_unhandled(o, data_id) == process_single_data_try(o, data_id)

\* LLMClient._process_single_data, for an LLM call that did o: the outer
\* handler (lines 252-256) turns every other exception into an error result.
process_single_data(o, data_id) ==
    LET r == process_single_data_try(o, data_id)
    IN  IF Raised(r) THEN [success |-> FALSE, error |-> "llm_error"] ELSE r

----------------------------------------------------------------------------
\* isinstance(a, (int, float)) for an amount value; bool is a subclass of int,
\* and True adds as 1, False as 0.
is_number(a) == a.type \in {"int", "float", "bool"}

\* Mutant: a record without an amount adds 1.
total_amount_default_one(recs) ==
    IF recs = <<>> THEN 0
    ELSE (IF "amount" \in DOMAIN Head(recs)
          THEN (IF is_number(Head(recs).amount) THEN Head(recs).amount.value ELSE 0)
          ELSE 1)
         + total_amount_default_one(Tail(recs))

\* Line 148: sum(r.get("amount", 0) for r in all_results
\*               if isinstance(r.get("amount"), (int, float)))
total_amount(recs) ==
    IF recs = <<>> THEN 0
    ELSE (IF "amount" \in DOMAIN Head(recs) /\ is_number(Head(recs).amount)
          THEN Head(recs).amount.value ELSE 0)
         + total_amount(Tail(recs))

\* No check_invoice call is made.
InvoiceIdle ==
    /\ inv_configured = FALSE
    /\ inv_file_valid = FALSE
    /\ inv_rule_ids = <<>>
    /\ inv_pc = "idle"
    /\ inv_pos = 0
    /\ inv_llm = <<>>
    /\ inv_checks = <<>>
    /\ inv_result = NotReturned

\* No single function call is made.
FunctionIdle ==
    /\ fn_arg = [fn |-> "none"]
    /\ fn_ret = NotReturned

\* No batch invoice check is made.
BatchIdle ==
    /\ files_data = <<>>
    /\ async_pc = "none"
    /\ tasks = <<>>
    /\ task_result = <<>>
    /\ task_order = <<>>
    /\ async_return = NotReturned
    /\ selected_files = <<>>
    /\ session_max_workers = 1
    /\ run_pc = "none"
    /\ futures = <<>>
    /\ future_result = <<>>
    /\ future_order = <<>>
    /\ run_snap = {}
    /\ run_waiterQ = <<>>
    /\ results = <<>>
    /\ completed = 0
    /\ check_results = NotReturned

\* The item on which the progress callback raises: none (0), or the last item
\* of the batch.
CallbackRaisesOn == {0} \cup ({NumItems} \cap Items)

\* The state before an execute_accounting_task call, for any arguments; the
\* column definitions other than the plain ones are given with the batches of
\* fewer than MaxItems items.
PipelineInit ==
    /\ task_known \in BOOLEAN
    /\ evidence_data \in EvidenceInputs
    /\ output_config \in OutputConfigs
    /\ output_config.cols \in {"result_data", "empty"} => NumItems < MaxItems
    /\ excel_manager \in ExcelManagers
    /\ max_workers \in 0..MaxWorkers
    /\ client_set \in BOOLEAN
    /\ cb_raises_on \in CallbackRaisesOn
    /\ pc = "idle"
    /\ engine_excel_manager = "own"
    /\ process_called = FALSE
    /\ llm_result = NotReturned
    /\ result = NotReturned
    /\ fut = <<>>
    /\ llm = <<>>
    /\ snap = {}
    /\ waiterQ = <<>>
    /\ completed_count = 0
    /\ all_results = <<>>
    /\ total_tokens = 0
    /\ processing_errors = <<>>
    /\ raw_responses = <<>>
    /\ cb_log = <<>>
    /\ llm_calls = 0
    /\ workbook = [loaded |-> excel_manager = "loaded", sheets |-> {}, header |-> FALSE, rows |-> <<>>]
    /\ write_calls = 0

\* No execute_accounting_task call is made.
PipelineIdle ==
    /\ PipelineInit
    /\ ~task_known
    /\ evidence_data = NoEvidence
    /\ output_config = [keys |-> {}, cols |-> "absent"]
    /\ excel_manager = "none"
    /\ max_workers = 1
    /\ ~client_set
    /\ cb_raises_on = 0

Init == PipelineInit /\ InvoiceIdle /\ FunctionIdle /\ BatchIdle

----------------------------------------------------------------------------
(* TaskEngine.execute_accounting_task up to the dispatch *)

Returned(r) == "success" \in DOMAIN r

Failure(e) == [success |-> FALSE, error |-> e]

\* Lines 61-85: the precondition that fails first, or "none".
FailedPrecondition ==
    IF ~task_known THEN "task_not_found"
    ELSE IF ~validate_evidence_data(evidence_data).valid THEN "evidence_data"
    ELSE IF ~validate_output_config(output_config).valid THEN "output_config"
    ELSE IF excel_manager = "none" \/ ~workbook.loaded THEN "no_workbook"
    ELSE "none"

\* process_accounting_task, lines 73-91: what stops it before any item is
\* submitted, or "none". ThreadPoolExecutor raises ValueError for max_workers <= 0.
DispatchRefused ==
    IF ~client_set THEN "no_api_key"
    ELSE IF ~evidence_data.success \/ evidence_data.data = {} THEN "no_evidence"
    ELSE IF max_workers <= 0 THEN "parallel_error"
    ELSE "none"

\* A precondition fails: the call returns at once (lines 62-85).
ExecuteRejected ==
    /\ pc = "idle"
    /\ FailedPrecondition # "none"
    /\ result' = Failure(FailedPrecondition)
    /\ pc' = "done"
    /\ UNCHANGED <<invoice, batch, fn, inputs, engine_excel_manager, process_called, llm_result,
                   pool, accum, llm_calls, excel>>

\* The preconditions hold, the manager is swapped in (lines 88-89) and
\* process_accounting_task is called, which returns an error dict before
\* submitting anything (llm_client 74-78, 91, 169-173); the engine returns it
\* (task_engine 112-114).
ExecuteNoDispatch ==
    /\ pc = "idle"
    /\ FailedPrecondition = "none"
    /\ DispatchRefused # "none"
    /\ engine_excel_manager' = excel_manager
    /\ process_called' = TRUE
    /\ llm_result' = Failure(DispatchRefused)
    /\ result' = Failure(DispatchRefused)
    /\ pc' = "done"
    /\ UNCHANGED <<invoice, batch, fn, inputs, pool, accum, llm_calls, excel>>

\* The items of the batch not submitted yet; they are submitted in the order
\* of the dict.
Unsubmitted == Items \ DOMAIN fut

NextToSubmit == CHOOSE i \in Unsubmitted : \A j \in Unsubmitted : i <= j

\* fut and llm once item i is submitted (line 102).
Submitted(f, i) == [x \in DOMAIN f \cup {i} |-> IF x = i THEN "pending" ELSE f[x]]

NotCalledYet(l, i) == [x \in DOMAIN l \cup {i} |-> IF x = i THEN NotCalled ELSE l[x]]

\* The preconditions hold, the manager is swapped in, process_accounting_task
\* is called, creates the executor and submits the first item (task_engine
\* 88-110, llm_client 73-102).
ExecuteDispatch ==
    /\ pc = "idle"
    /\ FailedPrecondition = "none"
    /\ DispatchRefused = "none"
    /\ engine_excel_manager' = excel_manager
    /\ process_called' = TRUE
    /\ fut' = Submitted(fut, NextToSubmit)
    /\ llm' = NotCalledYet(llm, NextToSubmit)
    /\ pc' = IF Unsubmitted = {NextToSubmit} THEN "submitted" ELSE "submitting"
    /\ UNCHANGED <<invoice, batch, fn, inputs, llm_result, result, snap, waiterQ, accum, llm_calls, excel>>

\* The submit loop goes on (lines 95-110): the next item is submitted, while
\* the workers already run the items submitted before it.
Submit ==
    /\ pc = "submitting"
    /\ fut' = Submitted(fut, NextToSubmit)
    /\ llm' = NotCalledYet(llm, NextToSubmit)
    /\ pc' = IF Unsubmitted = {NextToSubmit} THEN "submitted" ELSE "submitting"
    /\ UNCHANGED <<invoice, batch, fn, inputs, engine_excel_manager, process_called,
                   llm_result, result, snap, waiterQ, accum, llm_calls, excel>>

----------------------------------------------------------------------------
(* The executor's worker threads *)

Running == {i \in DOMAIN fut : fut[i] = "running"}

Pending == {i \in DOMAIN fut : fut[i] = "pending"}

\* The queued items submitted before item i.
QueuedBefore(i) == {j \in Pending : j < i}

\* Mutant: the pool starts a thread for every queued item, whatever max_workers.
WorkerAvailableUnbounded(i) == TRUE

\* Mutant: a worker thread serves one item and is never reused.
WorkerAvailableOnce(i) == Cardinality(DOMAIN fut \ Pending) < max_workers

\* A worker thread can be the one that starts item i. The threads take the
\* items from the work queue first in, first out, but a thread that took a
\* later item may mark it running before the thread that took an earlier one
\* does: item i can start when the threads not running a call are more than the
\* queued items before it.
WorkerAvailable(i) == Cardinality(Running) + Cardinality(QueuedBefore(i)) < max_workers

\* A worker thread that took item i from the queue marks its future running
\* (_WorkItem.run) and enters _process_single_data.
WorkerStart(i) ==
    /\ pc \in {"submitting", "submitted", "collecting"}
    /\ fut[i] = "pending"
    /\ WorkerAvailable(i)
    /\ fut' = [fut EXCEPT ![i] = "running"]
    /\ UNCHANGED <<invoice, batch, fn, inputs, engine, llm, snap, waiterQ, accum,
                   llm_calls, excel>>

\* _process_single_data of item i sends its request (llm_client.py 197-216).
LLMCall(i) ==
    /\ pc \in {"submitting", "submitted", "collecting"}
    /\ fut[i] = "running"
    /\ llm[i] = NotCalled
    /\ llm' = [llm EXCEPT ![i] = InCall]
    /\ llm_calls' = llm_calls + 1
    /\ UNCHANGED <<invoice, batch, fn, inputs, engine, fut, snap, waiterQ, accum, excel>>

\* Mutant: the worker itself counts its completion.
WorkerFinishCounts(i) ==
    /\ pc \in {"submitting", "submitted", "collecting"}
    /\ fut[i] = "running"
    /\ llm[i] = InCall
    /\ \E o \in LLMOutcomes(i) : llm' = [llm EXCEPT ![i] = o]
    /\ fut' = [fut EXCEPT ![i] = "finished"]
    /\ IF pc \in {"submitting", "submitted"}
       THEN snap' = snap \cup {i} /\ UNCHANGED waiterQ
       ELSE waiterQ' = Append(waiterQ, i) /\ UNCHANGED snap
    /\ completed_count' = completed_count + 1
    /\ UNCHANGED <<invoice, batch, fn, inputs, engine, all_results, total_tokens,
                   processing_errors, raw_responses, cb_log, llm_calls, excel>>

\* The LLM call of item i returns or raises, _process_single_data returns and
\* the future finishes: as_completed sees it in its first scan or through
\* its waiter.
WorkerFinish(i) ==
    /\ pc \in {"submitting", "submitted", "collecting"}
    /\ fut[i] = "running"
    /\ llm[i] = InCall
    /\ \E o \in LLMOutcomes(i) : llm' = [llm EXCEPT ![i] = o]
    /\ fut' = [fut EXCEPT ![i] = "finished"]
    /\ IF pc \in {"submitting", "submitted"}
       THEN snap' = snap \cup {i} /\ UNCHANGED waiterQ
       ELSE waiterQ' = Append(waiterQ, i) /\ UNCHANGED snap
    /\ UNCHANGED <<invoice, batch, fn, inputs, engine, accum, llm_calls, excel>>

----------------------------------------------------------------------------
(* The collecting loop of process_accounting_task *)

\* as_completed(future_to_data) is called (line 114).
AsCompleted ==
    /\ pc = "submitted"
    /\ pc' = "collecting"
    /\ UNCHANGED <<invoice, batch, fn, inputs, engine_excel_manager, process_called, llm_result, result,
                   pool, accum, llm_calls, excel>>

\* The futures as_completed may yield next: the ones of its first scan in any
\* order, then the others in finishing order.
Yieldable == IF snap # {} THEN snap ELSE IF waiterQ # <<>> THEN {Head(waiterQ)} ELSE {}

single_result(i) == process_single_data(llm[i], i)

ErrorEntry(i, e) == [data_id |-> i, error |-> e]

\* Mutant: the increment of line 116 is lost.
NextCompletedCountNoIncrement == completed_count

\* Line 116.
NextCompletedCount == completed_count + 1

\* Mutant: a failed item throws away what was aggregated before it.
CollectedResetOnFailure(i, r) ==
    IF r.success
    THEN [all_results |-> all_results \o r.data.results,
          total_tokens |-> total_tokens + r.tokens_used,
          raw_responses |-> [x \in DOMAIN raw_responses \cup {i} |->
                               IF x = i THEN r.raw_response ELSE raw_responses[x]],
          processing_errors |-> processing_errors]
    ELSE [all_results |-> <<>>,
          total_tokens |-> total_tokens,
          raw_responses |-> raw_responses,
          processing_errors |-> Append(processing_errors, ErrorEntry(i, r.error))]

\* Mutant: a failed item is dropped without an error entry.
CollectedDropsFailure(i, r) ==
    IF r.success
    THEN [all_results |-> all_results \o r.data.results,
          total_tokens |-> total_tokens + r.tokens_used,
          raw_responses |-> [x \in DOMAIN raw_responses \cup {i} |->
                               IF x = i THEN r.raw_response ELSE raw_responses[x]],
          processing_errors |-> processing_errors]
    ELSE [all_results |-> all_results,
          total_tokens |-> total_tokens,
          raw_responses |-> raw_responses,
          processing_errors |-> processing_errors]

\* Mutant: only the tokens of the first result collected are counted.
CollectedFirstTokensOnly(i, r) ==
    IF r.success
    THEN [all_results |-> all_results \o r.data.results,
          total_tokens |-> IF completed_count = 0 THEN r.tokens_used ELSE total_tokens,
          raw_responses |-> [x \in DOMAIN raw_responses \cup {i} |->
                               IF x = i THEN r.raw_response ELSE raw_responses[x]],
          processing_errors |-> processing_errors]
    ELSE [all_results |-> all_results,
          total_tokens |-> total_tokens,
          raw_responses |-> raw_responses,
          processing_errors |-> Append(processing_errors, ErrorEntry(i, r.error))]

\* Lines 121-131 for a result r of item i: the accumulators after it.
Collected(i, r) ==
    IF r.success
    THEN [all_results |-> IF "results" \in DOMAIN r.data
                          THEN all_results \o r.data.results ELSE all_results,
          total_tokens |-> total_tokens
                           + (IF "tokens_used" \in DOMAIN r THEN r.tokens_used ELSE 0),
          raw_responses |-> IF "raw_response" \in DOMAIN r
                            THEN [x \in DOMAIN raw_responses \cup {i} |->
                                    IF x = i THEN r.raw_response ELSE raw_responses[x]]
                            ELSE raw_responses,
          processing_errors |-> processing_errors]
    ELSE [all_results |-> all_results,
          total_tokens |-> total_tokens,
          raw_responses |-> raw_responses,
          processing_errors |->
              Append(processing_errors,
                     ErrorEntry(i, IF "error" \in DOMAIN r THEN r.error ELSE "unknown"))]

\* The callback raises for this item.
CallbackRaises(i) == cb_raises_on = i

\* One iteration of the loop (lines 114-141) for the future of item i. Were
\* future.result() to raise, the handler of line 139 would record it and the
\* callback would not be invoked.
Collect(i) ==
    /\ pc = "collecting"
    /\ i \in Yieldable
    /\ completed_count' = NextCompletedCount
    /\ IF Raised(single_result(i))
       THEN /\ processing_errors' =
                  Append(processing_errors, ErrorEntry(i, "parallel_error"))
            /\ UNCHANGED <<all_results, total_tokens, raw_responses, cb_log>>
       ELSE LET c == Collected(i, single_result(i))
            IN  /\ all_results' = c.all_results
                /\ total_tokens' = c.total_tokens
                /\ raw_responses' = c.raw_responses
                /\ cb_log' = Append(cb_log, <<NextCompletedCount, NumItems, i>>)
                /\ processing_errors' =
                      IF CallbackRaises(i)
                      THEN Append(c.processing_errors, ErrorEntry(i, "parallel_error"))
                      ELSE c.processing_errors
    /\ fut' = [fut EXCEPT ![i] = "collected"]
    /\ IF i \in snap
       THEN snap' = snap \ {i} /\ UNCHANGED waiterQ
       ELSE waiterQ' = Tail(waiterQ) /\ UNCHANGED snap
    /\ UNCHANGED <<invoice, batch, fn, inputs, engine, llm, llm_calls, excel>>

\* Mutant: any item error makes the whole batch unsuccessful.
AggregatedResultFailsOnItemError ==
    [success |-> processing_errors = <<>>,
     error |-> "parallel_error",
     data |-> [results |-> all_results,
               summary |-> [total_processed |-> Len(all_results),
                            total_amount |-> total_amount(all_results),
                            processing_errors |-> processing_errors]],
     raw_responses |-> raw_responses,
     tokens_used |-> total_tokens,
     processing_errors |-> processing_errors]

\* Mutant: a batch without any record is reported as failed by
\* process_accounting_task.
AggregatedResultFailsWhenEmpty ==
    [success |-> all_results # <<>>,
     error |-> "parallel_error",
     data |-> [results |-> all_results,
               summary |-> [total_processed |-> Len(all_results),
                            total_amount |-> total_amount(all_results),
                            processing_errors |-> processing_errors]],
     raw_responses |-> raw_responses,
     tokens_used |-> total_tokens,
     processing_errors |-> processing_errors]

\* Lines 143-167: the value process_accounting_task returns.
AggregatedResult ==
    [success |-> TRUE,
     data |-> [results |-> all_results,
               summary |-> [total_processed |-> Len(all_results),
                            total_amount |-> total_amount(all_results),
                            processing_errors |-> processing_errors]],
     raw_responses |-> raw_responses,
     tokens_used |-> total_tokens,
     processing_errors |-> processing_errors]

\* Mutant: process_accounting_task returns without waiting for the futures.
AggregateWithoutWaiting ==
    /\ pc = "collecting"
    /\ llm_result' = AggregatedResult
    /\ pc' = "aggregated"
    /\ UNCHANGED <<invoice, batch, fn, inputs, engine_excel_manager, process_called, result,
                   pool, accum, llm_calls, excel>>

\* Every future has been yielded: the loop ends, the executor is shut down and
\* process_accounting_task returns.
Aggregate ==
    /\ pc = "collecting"
    /\ \A i \in DOMAIN fut : fut[i] = "collected"
    /\ llm_result' = AggregatedResult
    /\ pc' = "aggregated"
    /\ UNCHANGED <<invoice, batch, fn, inputs, engine_excel_manager, process_called, result,
                   pool, accum, llm_calls, excel>>

----------------------------------------------------------------------------
(* ExcelManager.write_results and the end of execute_accounting_task *)

\* column_definitions in the order of the column letters, by the kind of the
\* mapping; a definition holds its key and, unless it is missing, its header.
column_definitions(cols) ==
    CASE cols = "ok" ->
           <<[key |-> "row_number", header |-> "h"], [key |-> "data_id", header |-> "h"]>>
      [] cols = "result_data" ->
           <<[key |-> "row_number", header |-> "h"], [key |-> "data_id", header |-> "h"],
             [key |-> "result_data", header |-> "h"]>>
      [] cols = "no_header" -> <<[key |-> "row_number"]>>
      [] OTHER -> <<>>

\* The number of header cells written (lines 115-123): the loop stops with a
\* KeyError at the first definition without "header".
HeaderCells(cdefs) ==
    IF \E c \in 1..Len(cdefs) : "header" \notin DOMAIN cdefs[c]
    THEN (CHOOSE c \in 1..Len(cdefs) :
             /\ "header" \notin DOMAIN cdefs[c]
             /\ \A d \in 1..(c - 1) : "header" \in DOMAIN cdefs[d]) - 1
    ELSE Len(cdefs)

\* The value assigned to the cell of the column keyed key in the idx-th data
\* row (lines 134-137); "" is the default of row_data.get.
CellValue(row_data, key, idx) ==
    IF key = "row_number" THEN idx ELSE get(row_data, key, "")

\* The assignment to cell.value succeeds (line 137). openpyxl refuses a dict,
\* and the value under result_data is a dict in every record that holds one
\* (AccountingResult.result_data: Dict); the other values are scalars or None.
CellAccepted(row_data, key) == ~(key = "result_data" /\ key \in DOMAIN row_data)

\* The number of cells written in the row of row_data (lines 129-137): the loop
\* stops with a ValueError at the first cell that refuses its value.
RowCells(cdefs, row_data) ==
    IF \E c \in 1..Len(cdefs) : ~CellAccepted(row_data, cdefs[c].key)
    THEN (CHOOSE c \in 1..Len(cdefs) :
             /\ ~CellAccepted(row_data, cdefs[c].key)
             /\ \A d \in 1..(c - 1) : CellAccepted(row_data, cdefs[d].key)) - 1
    ELSE Len(cdefs)

\* The cells _write_results_to_sheet writes for the idx-th record (lines
\* 126-137) in the first n columns, by column key.
SheetRow(cdefs, data, idx, n) ==
    [key \in {cdefs[c].key : c \in 1..n} |-> CellValue(data[idx], key, idx)]

\* The records of data with a cell the sheet refuses.
RefusedRows(cdefs, data) ==
    {k \in 1..Len(data) : RowCells(cdefs, data[k]) < Len(cdefs)}

\* The rows the data loop writes when a cell is refused (lines 126-137): the
\* rows before the first refusal in full, and the cells of that row before the
\* refused one.
RowsUntilRefusal(cdefs, data) ==
    LET first == CHOOSE k \in RefusedRows(cdefs, data) :
                     \A j \in RefusedRows(cdefs, data) : k <= j
        n == RowCells(cdefs, data[first])
    IN  [k \in 1..(IF n = 0 THEN first - 1 ELSE first) |->
            SheetRow(cdefs, data, k, IF k = first THEN n ELSE Len(cdefs))]

\* The cells of a row after new cells were written over it.
Overwritten(old, new) ==
    [key \in DOMAIN old \cup DOMAIN new |-> IF key \in DOMAIN new THEN new[key] ELSE old[key]]

\* The data rows of the sheet after the rows new were written from the first
\* data row on: cells are overwritten, the other cells and rows stay.
RowsAfter(rows, new) ==
    [k \in 1..(IF Len(rows) > Len(new) THEN Len(rows) ELSE Len(new)) |->
        IF k > Len(new) THEN rows[k]
        ELSE IF k > Len(rows) THEN new[k]
        ELSE Overwritten(rows[k], new[k])]

\* ExcelManager.write_results on workbook w: the workbook afterwards and the
\* value returned. The sheet is created when missing; the header loop and the
\* data loop write cell by cell, record by record, until one raises; an empty
\* column_definitions makes max() raise after the (empty) loops (line 151).
write_results(w, cols, data) ==
    IF ~w.loaded
    THEN [workbook |-> w, ret |-> Failure("workbook_not_loaded")]
    ELSE LET cdefs == column_definitions(cols)
             w1 == [w EXCEPT !.sheets = @ \cup {"target_sheet"}]
             w2 == [w1 EXCEPT !.header = @ \/ HeaderCells(cdefs) > 0]
         IN  IF cdefs = <<>>
             THEN [workbook |-> w1, ret |-> Failure("write_error")]
             ELSE IF HeaderCells(cdefs) < Len(cdefs)
             THEN [workbook |-> w2, ret |-> Failure("write_error")]
             ELSE IF RefusedRows(cdefs, data) # {}
             THEN [workbook |-> [w2 EXCEPT !.rows = RowsAfter(@, RowsUntilRefusal(cdefs, data))],
                   ret |-> Failure("write_error")]
             ELSE [workbook |->
                      [w2 EXCEPT !.rows =
                          RowsAfter(@, [k \in 1..Len(data) |->
                                           SheetRow(cdefs, data, k, Len(cdefs))])],
                   ret |-> [success |-> TRUE, written_rows |-> Len(data),
                            target_sheet |-> "target_sheet"]]

\* Mutant: the write step runs for an empty result list as well.
WriteNeededAlways(llm_data) == TRUE

\* TaskEngine._write_results_to_excel: nothing is written for an empty list.
WriteNeeded(llm_data) ==
    "results" \in DOMAIN llm_data /\ llm_data.results # <<>>

\* Mutant: the failed count is taken to be the items that are not records.
create_execution_summary_by_difference(lr, wr, total_data_count) ==
    [total_data_count |-> total_data_count,
     processed_data_count |-> lr.data.summary.total_processed,
     failed_data_count |-> IF total_data_count >= lr.data.summary.total_processed
                           THEN total_data_count - lr.data.summary.total_processed
                           ELSE 0,
     written_rows |-> wr.written_rows,
     tokens_used |-> lr.tokens_used]

\* TaskEngine._create_execution_summary
create_execution_summary(lr, wr, total_data_count) ==
    [total_data_count |-> total_data_count,
     processed_data_count |-> lr.data.summary.total_processed,
     failed_data_count |-> Len(lr.processing_errors),
     written_rows |-> wr.written_rows,
     tokens_used |-> lr.tokens_used]

\* Lines 112-144, once process_accounting_task has returned: a failed
\* llm_result is returned as it is; otherwise the records are written, and
\* either the failed write_result is returned or the summary is built, the
\* engine's own manager is restored and the result returned.
WriteAndReturn ==
    /\ pc = "aggregated"
    /\ IF ~llm_result.success
       THEN /\ result' = llm_result
            /\ UNCHANGED <<engine_excel_manager, excel>>
       ELSE LET wr == IF WriteNeeded(llm_result.data)
                      THEN write_results(workbook, output_config.cols, llm_result.data.results)
                      ELSE [workbook |-> workbook, ret |-> Failure("no_results")]
            IN  /\ workbook' = wr.workbook
                /\ write_calls' = IF WriteNeeded(llm_result.data)
                                  THEN write_calls + 1 ELSE write_calls
                /\ IF wr.ret.success
                   THEN /\ result' = [success |-> TRUE,
                                      summary |-> create_execution_summary(llm_result, wr.ret, NumItems),
                                      llm_result |-> llm_result,
                                      write_result |-> wr.ret]
                        /\ engine_excel_manager' = "own"
                   ELSE /\ result' = wr.ret
                        /\ UNCHANGED engine_excel_manager
    /\ pc' = "done"
    /\ UNCHANGED <<invoice, batch, fn, inputs, process_called, llm_result, pool, accum, llm_calls>>

----------------------------------------------------------------------------
Next ==
    \/ ExecuteRejected
    \/ ExecuteNoDispatch
    \/ ExecuteDispatch
    \/ Submit
    \/ \E i \in DOMAIN fut : WorkerStart(i)
    \/ \E i \in DOMAIN fut : LLMCall(i)
    \/ \E i \in DOMAIN fut : WorkerFinish(i)
    \/ AsCompleted
    \/ \E i \in DOMAIN fut : Collect(i)
    \/ Aggregate
    \/ WriteAndReturn

Spec == Init /\ [][Next]_vars

\* The executor's threads run, every LLM call returns or raises, and the calling
\* thread keeps running.
FairSpec == Spec /\ WF_vars(Next)

----------------------------------------------------------------------------
(* InvoiceChecker: CheckResult, _parse_structured_response, _apply_rule and  *)
(* check_invoice                                                            *)

\* SeverityLevel
SeverityLevels == {"info", "warning", "error"}

\* The rules RuleManager holds, by id; 0 is an id it does not hold.
RuleStore == 1..MaxRuleIds

\* Mutant: the manager returns a rule for every id.
get_rule_any(rule_id) == [found |-> TRUE, name |-> rule_id]

get_rule(rule_id) ==
    IF rule_id \in RuleStore THEN [found |-> TRUE, name |-> rule_id] ELSE [found |-> FALSE]

RuleIdInputs ==
    UNION {[1..n -> RuleStore \cup {0}] : n \in 0..MaxRuleIds}

\* The check_result objects an LLM response can carry: every combination of
\* passed and an enumerated severity, one without passed, one with a severity
\* outside the enumeration, messages that are empty, only blanks or padded
\* with blanks, and one that gives details.
LLMCheckResults ==
    {[passed |-> p, severity |-> v, message |-> "m"] : p \in BOOLEAN, v \in SeverityLevels}
    \cup {[severity |-> "error", message |-> "m"],
          [passed |-> TRUE, severity |-> "fatal", message |-> "m"],
          [passed |-> TRUE, severity |-> "info", message |-> ""],
          [passed |-> TRUE, severity |-> "info", message |-> "   "],
          [passed |-> TRUE, severity |-> "info", message |-> " m "],
          [passed |-> FALSE, severity |-> "error", message |-> "m", details |-> "d"]}

\* The contents of an LLM response: a JSON document or not.
CheckContents ==
    {[json |-> FALSE, value |-> [note |-> "m"]], [json |-> TRUE, value |-> [note |-> "m"]]}
    \cup {[json |-> TRUE, value |-> [check_result |-> c]] : c \in LLMCheckResults}

\* What self.llm(messages) can do: raise, or return a response.
CheckOutcomes ==
    {[kind |-> "raise"]} \cup {[kind |-> "content", content |-> c] : c \in CheckContents}

\* Mutant: the validator of severity accepts every combination.
severity_consistency_check_accepts_all(c) == TRUE

\* CheckResult.severity_consistency_check (lines 30-36), for a check_result
\* whose passed field was validated.
severity_consistency_check(c) == ~(c.severity = "error" /\ c.passed)

\* str.strip on the messages of LLMCheckResults: the blanks at both ends are
\* removed.
strip(v) ==
    CASE v = " m " -> "m"
      [] v = "   " -> ""
      [] OTHER -> v

\* CheckResult(**c) is accepted: the fields and their validators; a message
\* that is empty or only blanks is refused (lines 30-34).
check_result_valid(c) ==
    /\ {"passed", "severity", "message"} \subseteq DOMAIN c
    /\ c.severity \in SeverityLevels
    /\ severity_consistency_check(c)
    /\ c.message # ""
    /\ strip(c.message) # ""

\* The CheckResult object made of an accepted c: the message stripped (line
\* 34), details "" unless given (line 28).
CheckResultObject(c) ==
    [passed |-> c.passed, severity |-> c.severity, message |-> strip(c.message),
     details |-> IF "details" \in DOMAIN c THEN c.details ELSE ""]

\* PydanticOutputParser(InvoiceCheckResponse).parse: the parsed object, or the
\* exception it raises.
output_parser_parse(content) ==
    IF /\ content.json
       /\ "check_result" \in DOMAIN content.value
       /\ check_result_valid(content.value.check_result)
    THEN [check_result |-> CheckResultObject(content.value.check_result)]
    ELSE Raise("OutputParserException")

\* InvoiceChecker._parse_structured_response
parse_structured_response(content, rule) ==
    LET parsed_response == output_parser_parse(content)
    IN  IF Raised(parsed_response)
        THEN [rule_name |-> rule.name, severity |-> "error",
              message |-> "parse_error", details |-> content,
              passed |-> FALSE]
        ELSE [rule_name |-> rule.name,
              severity |-> parsed_response.check_result.severity,
              message |-> parsed_response.check_result.message,
              details |-> parsed_response.check_result.details,
              passed |-> parsed_response.check_result.passed]

\* InvoiceChecker._apply_rule, for an LLM call that did o: the handler of lines
\* 166-173 returns a record without "passed".
apply_rule(o, rule) ==
    IF o.kind = "raise"
    THEN [rule_name |-> rule.name, severity |-> "error",
          message |-> "apply_error", details |-> "None"]
    ELSE parse_structured_response(o.content, rule)

\* The check that makes check_invoice return an error before its loop.
InvoiceRefused ==
    IF ~inv_configured THEN "not_configured"
    ELSE IF ~inv_file_valid THEN "file_data"
    ELSE IF inv_rule_ids = <<>> THEN "rule_ids"
    ELSE "none"

\* Lines 82-94.
CheckInvoiceRejected ==
    /\ inv_pc = "idle"
    /\ InvoiceRefused # "none"
    /\ inv_result' = [error |-> InvoiceRefused]
    /\ inv_pc' = "done"
    /\ UNCHANGED <<pipeline, batch, fn, inv_configured, inv_file_valid, inv_rule_ids,
                   inv_pos, inv_llm, inv_checks>>

\* Lines 96-102: the loop over rule_ids is entered.
CheckInvoiceStart ==
    /\ inv_pc = "idle"
    /\ InvoiceRefused = "none"
    /\ inv_pc' = "looping"
    /\ UNCHANGED <<pipeline, batch, fn, inv_configured, inv_file_valid, inv_rule_ids,
                   inv_pos, inv_llm, inv_checks, inv_result>>

\* One iteration of the loop for a rule the manager holds (lines 104-109).
ApplyRule ==
    /\ inv_pc = "looping"
    /\ inv_pos < Len(inv_rule_ids)
    /\ get_rule(inv_rule_ids[inv_pos + 1]).found
    /\ \E o \in CheckOutcomes :
          /\ inv_llm' = Append(inv_llm, o)
          /\ inv_checks' =
                Append(inv_checks, apply_rule(o, get_rule(inv_rule_ids[inv_pos + 1])))
    /\ inv_pos' = inv_pos + 1
    /\ UNCHANGED <<pipeline, batch, fn, inv_configured, inv_file_valid, inv_rule_ids,
                   inv_pc, inv_result>>

\* One iteration of the loop for a rule the manager does not hold (line 111).
SkipRule ==
    /\ inv_pc = "looping"
    /\ inv_pos < Len(inv_rule_ids)
    /\ ~get_rule(inv_rule_ids[inv_pos + 1]).found
    /\ inv_pos' = inv_pos + 1
    /\ UNCHANGED <<pipeline, batch, fn, inv_configured, inv_file_valid, inv_rule_ids,
                   inv_pc, inv_llm, inv_checks, inv_result>>

\* Lines 113-120.
CheckInvoiceReturn ==
    /\ inv_pc = "looping"
    /\ inv_pos = Len(inv_rule_ids)
    /\ inv_result' = [file_name |-> "file", checks |-> inv_checks]
    /\ inv_pc' = "done"
    /\ UNCHANGED <<pipeline, batch, fn, inv_configured, inv_file_valid, inv_rule_ids,
                   inv_pos, inv_llm, inv_checks>>

InvoiceInit ==
    /\ PipelineIdle
    /\ FunctionIdle
    /\ BatchIdle
    /\ inv_configured \in BOOLEAN
    /\ inv_file_valid \in BOOLEAN
    /\ inv_rule_ids \in RuleIdInputs
    /\ inv_pc = "idle"
    /\ inv_pos = 0
    /\ inv_llm = <<>>
    /\ inv_checks = <<>>
    /\ inv_result = NotReturned

InvoiceNext ==
    \/ CheckInvoiceRejected
    \/ CheckInvoiceStart
    \/ ApplyRule
    \/ SkipRule
    \/ CheckInvoiceReturn

\* One check_invoice call.
InvoiceSpec == InvoiceInit /\ [][InvoiceNext]_vars

----------------------------------------------------------------------------
(* Single calls of _create_fallback_response and of the amount summation of  *)
(* process_accounting_task, on arguments of any shape                       *)

\* The texts _create_fallback_response is called with.
FallbackTexts ==
    {<<>>, OpenFenceArrayText}
    \cup UNION {ResponseTexts(i) \cup WrappedTexts(i) : i \in 1..MaxItems}

\* What the LLM call of one _process_single_data call can do: any outcome of
\* the pipeline, and texts with the documents the schema rejects or completes.
SingleDataOutcomes ==
    UNION {LLMOutcomes(i) : i \in 1..MaxItems}
    \cup {[kind |-> "text", text |-> JsonText(d), usage |-> 1] :
            d \in InvalidDocuments(1) \cup {StatusDocument(1), CountsDocument(1)}}

\* The workbooks write_results is called on: none loaded, a new one, and one
\* whose target sheet holds a header and MaxRecords rows of an earlier write.
WrittenWorkbooks ==
    {[loaded |-> FALSE, sheets |-> {}, header |-> FALSE, rows |-> <<>>],
     [loaded |-> TRUE, sheets |-> {}, header |-> FALSE, rows |-> <<>>],
     [loaded |-> TRUE, sheets |-> {"target_sheet"}, header |-> TRUE,
      rows |-> [k \in 1..MaxRecords |-> [row_number |-> k, data_id |-> MaxItems]]]}

\* The record lists write_results is given: the validated records of an item,
\* and lists of records that were not validated, where a record without
\* result_data stands alone or before one that holds it.
WrittenData ==
    {process_single_data([kind |-> "text", text |-> JsonText(ValidDocument(i, n)),
                          usage |-> 1], i).data.results :
        i \in 1..MaxItems, n \in 0..MaxRecords}
    \cup {<<[data_id |-> i, task_type |-> "t"]>> : i \in 1..MaxItems}
    \cup {<<[data_id |-> i, task_type |-> "t"], LLMRecord(i, 2)>> : i \in 1..MaxItems}

FunctionCalls ==
    {[fn |-> "create_fallback_response", response_text |-> t, data_id |-> i,
      error_message |-> e] :
        t \in FallbackTexts, i \in 1..MaxItems,
        e \in {"JSONDecodeError", "ValidationError"}}
    \cup {[fn |-> "process_single_data", outcome |-> o, data_id |-> i] :
            o \in SingleDataOutcomes, i \in 1..MaxItems}
    \cup {[fn |-> "write_results", workbook |-> w, cols |-> c, data |-> d] :
            w \in WrittenWorkbooks, c \in ColumnKinds, d \in WrittenData}

\* _create_fallback_response is called and returns.
CallFallback ==
    /\ fn_arg.fn = "create_fallback_response"
    /\ ~fn_ret.returned
    /\ fn_ret' = [returned |-> TRUE,
                  value |-> create_fallback_response(fn_arg.response_text,
                                                     fn_arg.data_id,
                                                     fn_arg.error_message)]
    /\ UNCHANGED <<pipeline, invoice, batch, fn_arg>>

\* _process_single_data is called and returns.
CallProcessSingleData ==
    /\ fn_arg.fn = "process_single_data"
    /\ ~fn_ret.returned
    /\ fn_ret' = [returned |-> TRUE,
                  value |-> process_single_data(fn_arg.outcome, fn_arg.data_id)]
    /\ UNCHANGED <<pipeline, invoice, batch, fn_arg>>

\* ExcelManager.write_results is called and returns.
CallWriteResults ==
    /\ fn_arg.fn = "write_results"
    /\ ~fn_ret.returned
    /\ fn_ret' = [returned |-> TRUE,
                  value |-> write_results(fn_arg.workbook, fn_arg.cols, fn_arg.data)]
    /\ UNCHANGED <<pipeline, invoice, batch, fn_arg>>

FunctionInit ==
    /\ PipelineIdle
    /\ InvoiceIdle
    /\ BatchIdle
    /\ fn_arg \in FunctionCalls
    /\ fn_ret = NotReturned

FunctionNext ==
    CallFallback \/ CallProcessSingleData \/ CallWriteResults

\* One call of one function.
FunctionSpec == FunctionInit /\ [][FunctionNext]_vars

-----------------------------------------------------------------------------
(* Batch invoice checking: InvoiceChecker.check_invoices_async and            *)
(* run_invoice_check of app.py, one call of each, one after the other        *)

FileNames == {<<"name", n>> : n \in 1..MaxFiles}

\* A file_data dict: with a file_name, or without one.
FileData == {[file_name |-> f] : f \in FileNames} \cup {[content |-> "c"]}

\* file_data.get("file_name", default)
file_name_or(file_data, default) ==
    IF "file_name" \in DOMAIN file_data THEN file_data.file_name ELSE default

\* What the check_invoice call for file_data can do: return its checks, return
\* an error dict, or raise.
CheckInvoiceResults(file_data) ==
    {[file_name |-> file_name_or(file_data, <<"unknown">>), checks |-> "checks"],
     [error |-> "refused"],
     Raise("exception")}

\* files_data lists: any file_data dicts, repetitions included.
FilesDataInputs == UNION {[1..n -> FileData] : n \in 0..MaxFiles}

\* The file data of selected_files: the multiselect gives distinct keys of
\* processed_data.
SelectedFilesInputs ==
    {fs \in UNION {[1..n -> {[file_name |-> f] : f \in FileNames}] : n \in 0..MaxFiles} :
        \A a, b \in DOMAIN fs : a # b => fs[a] # fs[b]}

\* The children of gather: the tasks in the order of its arguments, which is
\* the order of the tasks list (invoice_checker.py 254-259).
children == [k \in 1..Len(tasks) |-> k]

\* Mutant: the gathered values come in the order the tasks finished.
gather_as_completed(kids, res, order) == [k \in 1..Len(order) |-> res[order[k]]]

\* asyncio.gather(*tasks, return_exceptions=True), when the last child is done:
\* it goes through its children in the order they were given and takes the
\* value or the exception each one holds, whatever the order they finished in.
gather(kids, res, order) == [k \in 1..Len(kids) |-> res[kids[k]]]

\* Lines 261-270 of check_invoices_async.
processed_results(files, gathered) ==
    [i \in 1..Len(gathered) |->
        IF Raised(gathered[i])
        THEN [file_name |-> file_name_or(files[i], <<"file", i - 1>>),
              error |-> gathered[i].raised]
        ELSE gathered[i]]

\* check_invoices_async creates one task per file (lines 254-257) and awaits
\* gather; no task runs before the caller awaits.
CheckInvoicesAsyncStart ==
    /\ async_pc = "idle"
    /\ tasks' = [i \in 1..Len(files_data) |-> "pending"]
    /\ task_result' = [i \in 1..Len(files_data) |-> NotReturned]
    /\ async_pc' = "gathering"
    /\ UNCHANGED <<pipeline, invoice, fn, run_batch, files_data, task_order, async_return>>

\* The check_invoice call of task i starts in the thread of the executor the
\* task created for it (_check_invoice_async): the calls of the tasks start in
\* any order.
TaskStart(i) ==
    /\ async_pc = "gathering"
    /\ tasks[i] = "pending"
    /\ tasks' = [tasks EXCEPT ![i] = "running"]
    /\ UNCHANGED <<pipeline, invoice, fn, run_batch, files_data, async_pc, task_result,
                   task_order, async_return>>

\* The check_invoice call of task i returns or raises, and the task is done.
TaskFinish(i) ==
    /\ async_pc = "gathering"
    /\ tasks[i] = "running"
    /\ \E r \in CheckInvoiceResults(files_data[i]) :
          task_result' = [task_result EXCEPT ![i] = r]
    /\ tasks' = [tasks EXCEPT ![i] = "finished"]
    /\ task_order' = Append(task_order, i)
    /\ UNCHANGED <<pipeline, invoice, fn, run_batch, files_data, async_pc, async_return>>

\* gather returns and check_invoices_async returns processed_results (lines
\* 259-272).
CheckInvoicesAsyncReturn ==
    /\ async_pc = "gathering"
    /\ \A i \in DOMAIN tasks : tasks[i] = "finished"
    /\ async_return' = processed_results(files_data, gather(children, task_result, task_order))
    /\ async_pc' = "returned"
    /\ UNCHANGED <<pipeline, invoice, fn, run_batch, files_data, tasks, task_result, task_order>>

\* The position in selected_files of the file the submit loop submits next.
NextFile == Len(futures) + 1

\* run_invoice_check is called with selected_files, creates the executor and,
\* unless no file is selected, submits the check_invoice call of the first file
\* (app.py 1235-1254).
RunInvoiceCheckStart ==
    /\ async_pc = "returned"
    /\ run_pc = "idle"
    /\ \E fs \in SelectedFilesInputs, w \in 1..MaxWorkers :
          /\ selected_files' = fs
          /\ session_max_workers' = w
          /\ futures' = IF fs = <<>> THEN <<>> ELSE <<"pending">>
          /\ future_result' = IF fs = <<>> THEN <<>> ELSE <<NotReturned>>
          /\ run_pc' = IF Len(fs) <= 1 THEN "submitted" ELSE "submitting"
    /\ UNCHANGED <<pipeline, invoice, fn, async_batch, future_order, run_snap, run_waiterQ,
                   results, completed, check_results>>

\* The submit loop goes on (app.py 1247-1254): the call of the next file is
\* submitted, while the worker threads already run the calls submitted before.
SubmitCheck ==
    /\ run_pc = "submitting"
    /\ futures' = Append(futures, "pending")
    /\ future_result' = Append(future_result, NotReturned)
    /\ run_pc' = IF Len(selected_files) <= NextFile THEN "submitted" ELSE "submitting"
    /\ UNCHANGED <<pipeline, invoice, fn, async_batch, selected_files, session_max_workers,
                   future_order, run_snap, run_waiterQ, results, completed, check_results>>

\* A worker thread can be the one that starts the call of file i: the threads
\* take the calls from the work queue first in, first out, but a thread that
\* took a later call may mark it running before the thread that took an
\* earlier one does.
CheckWorkerAvailable(i) ==
    Cardinality({j \in DOMAIN futures : futures[j] = "running"})
       + Cardinality({j \in DOMAIN futures : futures[j] = "pending" /\ j < i})
    < session_max_workers

\* A worker thread marks the future of file i running and calls check_invoice.
CheckStart(i) ==
    /\ run_pc \in {"submitting", "submitted", "collecting"}
    /\ futures[i] = "pending"
    /\ CheckWorkerAvailable(i)
    /\ futures' = [futures EXCEPT ![i] = "running"]
    /\ UNCHANGED <<pipeline, invoice, fn, async_batch, selected_files, session_max_workers,
                   run_pc, future_result, future_order, run_snap, run_waiterQ, results,
                   completed, check_results>>

\* The check_invoice call of file i returns or raises and its future finishes:
\* as_completed sees it in its first scan or through its waiter.
CheckFinish(i) ==
    /\ run_pc \in {"submitting", "submitted", "collecting"}
    /\ futures[i] = "running"
    /\ \E r \in CheckInvoiceResults(selected_files[i]) :
          future_result' = [future_result EXCEPT ![i] = r]
    /\ futures' = [futures EXCEPT ![i] = "finished"]
    /\ future_order' = Append(future_order, i)
    /\ IF run_pc \in {"submitting", "submitted"}
       THEN run_snap' = run_snap \cup {i} /\ UNCHANGED run_waiterQ
       ELSE run_waiterQ' = Append(run_waiterQ, i) /\ UNCHANGED run_snap
    /\ UNCHANGED <<pipeline, invoice, fn, async_batch, selected_files, session_max_workers,
                   run_pc, results, completed, check_results>>

\* as_completed(futures) is called (app.py 1259).
RunAsCompleted ==
    /\ run_pc = "submitted"
    /\ run_pc' = "collecting"
    /\ UNCHANGED <<pipeline, invoice, fn, async_batch, selected_files, session_max_workers,
                   futures, future_result, future_order, run_snap, run_waiterQ, results,
                   completed, check_results>>

\* The futures as_completed may yield next: the ones of its first scan in any
\* order, then the others in finishing order.
RunYieldable ==
    IF run_snap # {} THEN run_snap
    ELSE IF run_waiterQ # <<>> THEN {Head(run_waiterQ)} ELSE {}

\* results[file_name] = entry (app.py 1263, 1272).
Stored(res, file_name, entry) ==
    [f \in DOMAIN res \cup {file_name} |-> IF f = file_name THEN entry ELSE res[f]]

\* One iteration of the as_completed loop of run_invoice_check (app.py
\* 1259-1272) for the finished future of file i.
CollectCheck(i) ==
    /\ run_pc = "collecting"
    /\ i \in RunYieldable
    /\ results' = Stored(results, selected_files[i].file_name,
                         IF Raised(future_result[i])
                         THEN [error |-> future_result[i].raised]
                         ELSE future_result[i])
    /\ completed' = IF Raised(future_result[i]) THEN completed ELSE completed + 1
    /\ futures' = [futures EXCEPT ![i] = "collected"]
    /\ IF i \in run_snap
       THEN run_snap' = run_snap \ {i} /\ UNCHANGED run_waiterQ
       ELSE run_waiterQ' = Tail(run_waiterQ) /\ UNCHANGED run_snap
    /\ UNCHANGED <<pipeline, invoice, fn, async_batch, selected_files, session_max_workers,
                   run_pc, future_result, future_order, check_results>>

\* app.py 1274-1276: the loop has ended, the executor is shut down and the
\* results are stored in the session state.
RunInvoiceCheckStore ==
    /\ run_pc = "collecting"
    /\ \A i \in DOMAIN futures : futures[i] = "collected"
    /\ Len(futures) = Len(selected_files)
    /\ check_results' = results
    /\ run_pc' = "returned"
    /\ UNCHANGED <<pipeline, invoice, fn, async_batch, selected_files, session_max_workers,
                   futures, future_result, future_order, run_snap, run_waiterQ, results,
                   completed>>

\* check_invoices_async is about to be called with any files_data;
\* run_invoice_check is called after it returned.
BatchInit ==
    /\ PipelineIdle
    /\ InvoiceIdle
    /\ FunctionIdle
    /\ files_data \in FilesDataInputs
    /\ async_pc = "idle"
    /\ tasks = <<>>
    /\ task_result = <<>>
    /\ task_order = <<>>
    /\ async_return = NotReturned
    /\ selected_files = <<>>
    /\ session_max_workers = 1
    /\ run_pc = "idle"
    /\ futures = <<>>
    /\ future_result = <<>>
    /\ future_order = <<>>
    /\ run_snap = {}
    /\ run_waiterQ = <<>>
    /\ results = <<>>
    /\ completed = 0
    /\ check_results = NotReturned

BatchNext ==
    \/ CheckInvoicesAsyncStart
    \/ \E i \in DOMAIN tasks : TaskStart(i)
    \/ \E i \in DOMAIN tasks : TaskFinish(i)
    \/ CheckInvoicesAsyncReturn
    \/ RunInvoiceCheckStart
    \/ SubmitCheck
    \/ \E i \in DOMAIN futures : CheckStart(i)
    \/ \E i \in DOMAIN futures : CheckFinish(i)
    \/ RunAsCompleted
    \/ \E i \in DOMAIN futures : CollectCheck(i)
    \/ RunInvoiceCheckStore

\* One batch invoice check through each of the two entry points.
BatchSpec == BatchInit /\ [][BatchNext]_vars

----------------------------------------------------------------------------
(* Properties *)

\* Items have been submitted to the executor.
Dispatched == DOMAIN fut # {}

\* process_accounting_task has returned after a dispatch.
Collected_All == Dispatched /\ pc \in {"aggregated", "done"}

ItemSucceeded(i) == single_result(i).success

FailedItems == {i \in DOMAIN fut : ~ItemSucceeded(i)}

\* The aggregated records that come from item i, in their aggregated order.
RecordsFrom(recs, i) == SelectSeq(recs, LAMBDA r : r.result_data[1] = i)

\* The error entries that name item i.
ErrorsFor(i) == SelectSeq(processing_errors, LAMBDA e : e.data_id = i)

InitialWorkbook ==
    [loaded |-> excel_manager = "loaded", sheets |-> {}, header |-> FALSE, rows |-> <<>>]

\* C1: with max_workers = W >= 1, the number of items whose
\* _process_single_data call is in progress never exceeds W.
C1_BoundedConcurrency ==
    max_workers >= 1 => Cardinality(Running) <= max_workers

\* The pool of MaxWorkers threads is saturated: every thread is in the LLM
\* request of its item while a further item waits in the queue.
C1_Witness ==
    /\ max_workers = MaxWorkers
    /\ max_workers > 1
    /\ Cardinality(Running) = max_workers
    /\ \A i \in Running : llm[i] = InCall
    /\ Pending # {}

\* C2: an item whose processing fails is the only one recorded as failed: every
\* item whose processing succeeds has its records aggregated, unchanged and
\* once, and process_accounting_task returns a result with success = true; with
\* a callback that returns normally the error entries name exactly the failed
\* items.
C2_FailureIsolation ==
    Collected_All =>
        /\ Returned(llm_result) /\ llm_result.success
        /\ \A i \in DOMAIN fut :
              ItemSucceeded(i) =>
                 RecordsFrom(llm_result.data.results, i) = single_result(i).data.results
        /\ FailedItems \subseteq {e.data_id : e \in SeqToSet(llm_result.processing_errors)}
        /\ cb_raises_on = 0 =>
              {e.data_id : e \in SeqToSet(llm_result.processing_errors)} = FailedItems

\* One item's LLM call raised, it was collected first, and another item's
\* records were aggregated after it.
C2_Witness ==
    /\ Collected_All
    /\ \E i, j \in DOMAIN fut :
          /\ llm[i].kind = "raise"
          /\ ItemSucceeded(j)
          /\ single_result(j).data.results # <<>>
          /\ cb_log[1][3] = i
          /\ RecordsFrom(llm_result.data.results, j) = single_result(j).data.results

\* C3 (as claimed): a batch with at least one successful item is reported by
\* execute_accounting_task as success = true, with one error entry per failed
\* item (counted for a callback that returns normally).
C3_Original ==
    (pc = "done" /\ Dispatched /\ \E i \in DOMAIN fut : ItemSucceeded(i)) =>
        /\ result.success
        /\ cb_raises_on = 0 => Len(processing_errors) = Cardinality(FailedItems)

\* C3 (amended): a batch with at least one successful item that aggregated at
\* least one record, run with well-formed column definitions, is reported as
\* success = true with the records of the good items; every failed item has one
\* error entry naming it, and an item on which the progress callback raised has
\* one more.
C3_PartialSuccess ==
    (/\ pc = "done"
     /\ Dispatched
     /\ \E i \in DOMAIN fut : ItemSucceeded(i) /\ single_result(i).data.results # <<>>
     /\ output_config.cols = "ok") =>
        /\ result.success
        /\ \A i \in DOMAIN fut :
              /\ ItemSucceeded(i) =>
                    RecordsFrom(result.llm_result.data.results, i)
                       = single_result(i).data.results
              /\ Len(SelectSeq(result.llm_result.processing_errors,
                               LAMBDA e : e.data_id = i))
                    = (IF ItemSucceeded(i) THEN 0 ELSE 1)
                      + (IF cb_raises_on = i THEN 1 ELSE 0)

\* A successful run of two items, one failed and one good.
C3_Witness ==
    /\ pc = "done"
    /\ result.success
    /\ Cardinality(DOMAIN fut) >= 2
    /\ Cardinality(FailedItems) = Cardinality(DOMAIN fut) - 1
    /\ Len(result.llm_result.processing_errors) = Cardinality(FailedItems)

\* C4: the aggregated record list is in the submission order of the items, for
\* every completion order.
C4_SubmissionOrder ==
    (Returned(llm_result) /\ llm_result.success) =>
        \A a, b \in 1..Len(llm_result.data.results) :
            a < b => llm_result.data.results[a].result_data[1]
                       <= llm_result.data.results[b].result_data[1]

\* C5: the k-th invocation of the progress callback carries completed_count = k
\* and total_count = N, no item is reported twice, and when the collecting loop
\* has ended the callback has been invoked exactly N times, once per item.
C5_ProgressCallback ==
    /\ \A k \in 1..Len(cb_log) : cb_log[k][1] = k /\ cb_log[k][2] = NumItems
    /\ \A k, m \in 1..Len(cb_log) : cb_log[k][3] = cb_log[m][3] => k = m
    /\ Collected_All =>
          /\ Len(cb_log) = NumItems
          /\ {cb_log[k][3] : k \in 1..Len(cb_log)} = DOMAIN fut

\* The loop has ended for a batch of at least two items, one of them failed.
C5_Witness ==
    /\ Collected_All
    /\ Len(cb_log) >= 2
    /\ FailedItems # {}
    /\ FailedItems # DOMAIN fut

\* C6: when process_accounting_task returns and the callback returned normally,
\* every item has exactly one outcome: its validated records are in the
\* aggregate once and it has no error entry, or it has exactly one error entry
\* carrying its id and no record in the aggregate.
C6_ExactlyOneOutcome ==
    (Collected_All /\ cb_raises_on = 0) =>
        /\ \A i \in DOMAIN fut :
              IF ItemSucceeded(i)
              THEN /\ RecordsFrom(all_results, i) = single_result(i).data.results
                   /\ ErrorsFor(i) = <<>>
              ELSE /\ RecordsFrom(all_results, i) = <<>>
                   /\ Len(ErrorsFor(i)) = 1
        /\ \A k \in 1..Len(all_results) : all_results[k].result_data[1] \in DOMAIN fut
        /\ \A k \in 1..Len(processing_errors) : processing_errors[k].data_id \in DOMAIN fut

\* A batch with a validation failure, and a success that produced records.
C6_Witness ==
    /\ Collected_All
    /\ cb_raises_on = 0
    /\ \E i, j \in DOMAIN fut :
          /\ llm[i].kind = "text" /\ ~ItemSucceeded(i)
          /\ ItemSucceeded(j) /\ Len(single_result(j).data.results) >= 2

\* The batch is empty: evidence_data is missing or its data dict has no entry.
EmptyBatch == NumItems = 0

\* C7 (as claimed): an empty batch makes no LLM call, never invokes the
\* callback, produces no result, and its outcome is not an error.
C7_Original ==
    (pc = "done" /\ EmptyBatch) =>
        /\ llm_calls = 0
        /\ cb_log = <<>>
        /\ all_results = <<>>
        /\ result.success

\* C7 (amended): an empty batch makes no LLM call, never invokes the callback,
\* produces no result and writes nothing, and it is rejected as a failed
\* precondition: success = false with the evidence-data error (the
\* task-not-found error when the task id is unknown too), before
\* process_accounting_task is invoked.
C7_EmptyBatch ==
    (pc = "done" /\ EmptyBatch) =>
        /\ llm_calls = 0
        /\ cb_log = <<>>
        /\ all_results = <<>>
        /\ write_calls = 0
        /\ ~process_called
        /\ ~result.success
        /\ result.error = IF task_known THEN "evidence_data" ELSE "task_not_found"

\* A call that is in order but for its empty data dict has returned.
C7_Witness ==
    /\ pc = "done"
    /\ task_known /\ client_set /\ excel_manager = "loaded" /\ max_workers >= 1
    /\ output_config.keys = RequiredKeySet /\ output_config.cols = "ok"
    /\ evidence_data = Evidence(TRUE, 0)

\* One of the preconditions of execute_accounting_task does not hold.
PreconditionFails ==
    \/ ~task_known
    \/ ~evidence_data.present
    \/ ~evidence_data.success
    \/ evidence_data.data = {}
    \/ ~(RequiredKeySet \subseteq output_config.keys)
    \/ excel_manager # "loaded"

\* C8: when a precondition fails the call returns success = false and nothing
\* else happened: process_accounting_task was not invoked, no LLM call and no
\* callback invocation was made, the workbook is untouched and the engine's
\* excel_manager field is the one it was.
C8_PreconditionFailFast ==
    /\ PreconditionFails =>
          /\ pc \in {"idle", "done"}
          /\ ~process_called
          /\ llm_calls = 0
          /\ cb_log = <<>>
          /\ write_calls = 0
          /\ workbook = InitialWorkbook
          /\ engine_excel_manager = "own"
    /\ (PreconditionFails /\ pc = "done") => ~result.success

\* A call for a non-empty successful batch whose output configuration lacks
\* only column_definitions has returned.
C8_Witness ==
    /\ pc = "done"
    /\ task_known /\ client_set /\ excel_manager = "loaded" /\ max_workers >= 1
    /\ evidence_data = Evidence(TRUE, MaxItems)
    /\ output_config.keys = RequiredKeySet \ {"column_definitions"}
    /\ ~result.success

\* C9: an output configuration whose column_definitions is present but empty
\* is rejected before any item is dispatched: no LLM call is made for it.
C9_EmptyMappingRejected ==
    output_config.cols = "empty" => llm_calls = 0

\* C10: after a run raw_responses maps item_id to the raw text for every item
\* whose LLM call returned text, also when the text failed validation.
C10_RawResponsesKept ==
    Collected_All =>
        \A i \in DOMAIN fut :
            llm[i].kind = "text" =>
                /\ i \in DOMAIN llm_result.raw_responses
                /\ llm_result.raw_responses[i] = llm[i].text

RECURSIVE SumOver(_, _)
\* The sum of f[x] over the elements x of the set S.
SumOver(f, S) ==
    IF S = {} THEN 0
    ELSE LET x == CHOOSE y \in S : TRUE IN f[x] + SumOver(f, S \ {x})

\* The items whose result reports token usage: the valid ones and the
\* validation failures.
UsageReported == {i \in DOMAIN fut : "tokens_used" \in DOMAIN single_result(i)}

\* C11: the tokens_used total of a run is the sum of the token usage of every
\* item whose result reports usage, valid or validation failure alike.
C11_TokensOfAllItems ==
    Collected_All =>
        llm_result.tokens_used =
           SumOver([i \in UsageReported |-> single_result(i).tokens_used], UsageReported)

\* The LLM response for the k-th rule applied says severity error and passed
\* true.
ErrorButPassed(k) ==
    /\ inv_llm[k].kind = "content"
    /\ inv_llm[k].content.json
    /\ "check_result" \in DOMAIN inv_llm[k].content.value
    /\ "passed" \in DOMAIN inv_llm[k].content.value.check_result
    /\ inv_llm[k].content.value.check_result.severity = "error"
    /\ inv_llm[k].content.value.check_result.passed

\* C12: an LLM response whose check_result has severity error and passed true
\* is never accepted: the check record made from it is the degraded error
\* record (severity error, passed false, a parse error message), not the
\* literal values.
C12_InconsistentSeverityRejected ==
    \A k \in 1..Len(inv_llm) :
        ErrorButPassed(k) =>
           /\ "passed" \in DOMAIN inv_checks[k]
           /\ inv_checks[k].passed = FALSE
           /\ inv_checks[k].severity = "error"
           /\ inv_checks[k].message = "parse_error"

\* check_invoice has returned a check made from such a response.
C12_Witness ==
    /\ inv_pc = "done"
    /\ \E k \in 1..Len(inv_llm) :
          ErrorButPassed(k) /\ inv_result.checks[k].message = "parse_error"

\* C13: every record in the checks list of check_invoice carries a passed
\* field, and severity error implies passed false, whether it was parsed, made
\* by the parse-failure fallback or made when applying the rule raised.
C13_ChecksSatisfyCheckResult ==
    \A k \in 1..Len(inv_checks) :
        /\ "passed" \in DOMAIN inv_checks[k]
        /\ inv_checks[k].severity = "error" => inv_checks[k].passed = FALSE

\* C14: when every item succeeded and ExcelManager.write_results fails,
\* execute_accounting_task reports success = false and the value it returns
\* still holds the aggregated records.
C14_RecordsKeptOnWriteFailure ==
    (/\ pc = "done"
     /\ Dispatched
     /\ FailedItems = {}
     /\ all_results # <<>>
     /\ write_calls = 1
     /\ ~result.success)
    => /\ "llm_result" \in DOMAIN result
       /\ result.llm_result.data.results = all_results

\* The items whose LLM call has returned or raised.
Finished == {i \in DOMAIN llm : llm[i].kind \notin {"none", "calling"}}

\* The text the LLM returned for item i is a JSON document that conforms to
\* LLMAccountingResponse, and nothing else.
ValidJsonReturned(i) ==
    /\ llm[i].kind = "text"
    /\ Len(llm[i].text) = 1
    /\ \/ \E n \in 0..MaxRecords : llm[i].text[1] = ObjectTok(ValidDocument(i, n))
       \/ llm[i].text[1] = ObjectTok(AmountDocument(i))

\* C15: _process_single_data never raises: for every LLM outcome it returns a
\* result with a success flag, and the flag is true exactly when the text
\* parsed as JSON and passed the LLMAccountingResponse validation.
C15_SingleDataTotal ==
    \A i \in Finished :
        LET r == single_result(i)
        IN  /\ ~Raised(r)
            /\ "success" \in DOMAIN r
            /\ r.success <=> ValidJsonReturned(i)

\* One item's call raised and another returned text that is no valid document
\* (a conforming object inside a fenced block, a JSON array, or prose): each
\* has a result and neither is marked valid.
C15_Witness ==
    /\ \E i \in Finished : llm[i].kind = "raise" /\ ~single_result(i).success
    /\ \E i \in Finished :
          /\ llm[i].kind = "text"
          /\ llm[i].text \in {FencedText(ValidDocument(i, 1)), ArrayText, GarbageText(i)}
          /\ ~single_result(i).success

\* The text of item i is a schema-conforming object wrapped in prose or in a
\* fenced code block.
WrappedValid(i) ==
    /\ llm[i].kind = "text"
    /\ llm[i].text \in {ProseWrappedText(ValidDocument(i, 1), i),
                        FencedText(ValidDocument(i, 1))}

\* C16: for a single item whose response is a schema-conforming JSON object
\* wrapped in prose or in a fenced code block, the run ends with that object's
\* records in the aggregate and the raw text kept for the item.
C16_WrappedObjectAggregated ==
    (Collected_All /\ NumItems = 1 /\ WrappedValid(1)) =>
        /\ Len(llm_result.data.results) = 1
        /\ llm_result.data.results[1].result_data = LLMRecord(1, 1).result_data
        /\ 1 \in DOMAIN llm_result.raw_responses
        /\ llm_result.raw_responses[1] = llm[1].text

FallbackReturned == fn_arg.fn = "create_fallback_response" /\ fn_ret.returned

\* The text holds no JSON object at all.
NoObjectInText(t) == \A k \in 1..Len(t) : t[k].tok # "object"

\* C17: _create_fallback_response never raises: when no JSON object can be
\* recovered from the text it returns a degraded response with exactly one
\* record that carries the caller's item id, an error status, an empty result
\* payload and a note with the original error message.
C17_FallbackDegrades ==
    (FallbackReturned /\ NoObjectInText(fn_arg.response_text)) =>
        /\ "results" \in DOMAIN fn_ret.value
        /\ Len(fn_ret.value.results) = 1
        /\ fn_ret.value.results[1].data_id = fn_arg.data_id
        /\ fn_ret.value.results[1].status = "error"
        /\ fn_ret.value.results[1].result_data = <<>>
        /\ fn_ret.value.results[1].notes = fn_arg.error_message

\* The records _process_single_data produced for item i, validated or
\* recovered.
ProducedRecords(i) ==
    IF "data" \in DOMAIN single_result(i) /\ "results" \in DOMAIN single_result(i).data
    THEN single_result(i).data.results
    ELSE <<>>

\* C18: every record produced for an item, on the validated path and on the
\* recovery path alike, carries a non-empty data_id: an identifier the LLM left
\* missing or empty is the item id.
C18_DataIdNonEmpty ==
    \A i \in Finished :
        \A k \in 1..Len(ProducedRecords(i)) :
            /\ "data_id" \in DOMAIN ProducedRecords(i)[k]
            /\ ProducedRecords(i)[k].data_id # 0

\* The positions of the records whose amount is a number.
NumericAmounts(recs) ==
    {k \in 1..Len(recs) :
        "amount" \in DOMAIN recs[k] /\ recs[k].amount.type \in {"int", "float"}}

\* C19: the total_amount of the aggregate is the sum of the amount fields over
\* exactly the aggregated records whose amount is a number; a record whose
\* amount is missing or not a number contributes 0, and the aggregation
\* returns its aggregate all the same.
C19_TotalAmount ==
    Collected_All =>
        /\ llm_result.success
        /\ llm_result.data.summary.total_amount =
              SumOver([k \in NumericAmounts(llm_result.data.results) |->
                          llm_result.data.results[k].amount.value],
                      NumericAmounts(llm_result.data.results))

\* The response of the first item was the conforming document whose record
\* carries an amount, another item gave no record, and the aggregate holds the
\* record of the first item, without its amount, and a total of 0.
C19_Witness ==
    /\ Collected_All
    /\ llm[1].kind = "text"
    /\ llm[1].text = JsonText(AmountDocument(1))
    /\ FailedItems # {}
    /\ Len(llm_result.data.results) = 1
    /\ "amount" \notin DOMAIN llm_result.data.results[1]
    /\ llm_result.data.summary.total_amount = 0

\* The run failed in the write step, after process_accounting_task returned
\* its aggregate: write_results failed, or there was no record to write.
WriteStepFailed ==
    /\ Collected_All
    /\ llm_result.success
    /\ result.error \in {"no_results", "write_error", "workbook_not_loaded"}

\* C20 (as claimed): a run ends with success = false only because one of the
\* preconditions of execute_accounting_task failed before dispatch or because
\* the write step failed after dispatch.
C20_Original ==
    (Returned(result) /\ ~result.success) =>
        \/ ~Dispatched /\ PreconditionFails
        \/ WriteStepFailed

\* C20 (amended): a run ends with success = false only because it was refused
\* before any item was submitted (a precondition of execute_accounting_task
\* failed, or process_accounting_task had no API client or a max_workers below
\* 1), or because the write step failed after dispatch; once items are
\* submitted, process_accounting_task returns success = true whatever the
\* items' outcomes, max_workers and the completion order.
C20_FailureCauses ==
    /\ (Returned(result) /\ ~result.success) =>
          \/ /\ ~Dispatched
             /\ llm_calls = 0
             /\ PreconditionFails \/ ~client_set \/ max_workers <= 0
          \/ WriteStepFailed
    /\ (Dispatched /\ Returned(llm_result)) => llm_result.success

\* Two items were dispatched, one failed, the other's record was aggregated,
\* and the run failed in the write step.
C20_Witness ==
    /\ pc = "done"
    /\ Cardinality(DOMAIN fut) = 2
    /\ FailedItems # {}
    /\ all_results # <<>>
    /\ write_calls = 1
    /\ ~result.success
    /\ WriteStepFailed

\* C21: the workbook is written, and write_results called, only in a step
\* taken after process_accounting_task returned its aggregate, when every
\* future has finished and been collected, so never by a worker, and at most
\* once in a run.
C21_WriteAfterWorkers ==
    [][(write_calls' # write_calls \/ workbook' # workbook) =>
          /\ write_calls = 0
          /\ write_calls' = 1
          /\ pc = "aggregated"
          /\ Returned(llm_result)
          /\ Running = {}
          /\ \A i \in DOMAIN fut : fut[i] = "collected"]_vars

\* write_results was called once for a batch of two items run by two workers.
C21_Witness ==
    /\ write_calls = 1
    /\ workbook # InitialWorkbook
    /\ Cardinality(DOMAIN fut) = 2
    /\ max_workers = 2

CollectedFutures == {i \in DOMAIN fut : fut[i] = "collected"}

\* C22: the completion counter and the accumulators change only in a step of
\* the collecting loop, which takes one finished future, adds one to the
\* counter and invokes the callback at most once; no worker step changes them,
\* and the counter always equals the number of futures collected.
C22_CollectorOnly ==
    /\ [](completed_count = Cardinality(CollectedFutures))
    /\ [][accum' # accum =>
            /\ pc = "collecting" /\ pc' = "collecting"
            /\ llm' = llm
            /\ completed_count' = completed_count + 1
            /\ Len(cb_log') <= Len(cb_log) + 1
            /\ \E i \in DOMAIN fut :
                  /\ fut[i] = "finished"
                  /\ fut' = [fut EXCEPT ![i] = "collected"]]_vars

\* Two items ran on two workers, the second was collected first, and both
\* have been counted.
C22_Witness ==
    /\ completed_count = 2
    /\ Len(cb_log) = 2
    /\ cb_log[1][3] = 2
    /\ max_workers = 2
    /\ snap = {}
    /\ waiterQ = <<>>
    /\ pc = "collecting"

SucceededItems == {i \in DOMAIN fut : ItemSucceeded(i)}

\* How often r occurs in the sequence s.
Count(s, r) == Cardinality({k \in 1..Len(s) : s[k] = r})

\* C23: what process_accounting_task returns, viewed without order, is a
\* function of the batch, the per-item LLM outcomes and the callback alone: the
\* multiset of records, the set of error entries, the token total, the
\* raw-response map and the summary counts are the same whatever the
\* completion order and max_workers >= 1.
C23_OrderInsensitive ==
    Collected_All =>
        /\ \A i \in SucceededItems :
              \A r \in SeqToSet(single_result(i).data.results) :
                  Count(llm_result.data.results, r)
                     = Count(single_result(i).data.results, r)
        /\ Len(llm_result.data.results)
              = SumOver([i \in SucceededItems |-> Len(single_result(i).data.results)],
                        SucceededItems)
        /\ SeqToSet(llm_result.processing_errors)
              = {ErrorEntry(i, single_result(i).error) : i \in FailedItems}
                \cup {ErrorEntry(i, "parallel_error") : i \in DOMAIN fut \cap {cb_raises_on}}
        /\ llm_result.tokens_used
              = SumOver([i \in SucceededItems |-> llm[i].usage], SucceededItems)
        /\ llm_result.raw_responses = [i \in SucceededItems |-> llm[i].text]
        /\ llm_result.data.summary.total_processed = Len(llm_result.data.results)
        /\ llm_result.data.summary.total_amount = 0

\* Two successful items with records ran on two workers and the second was
\* collected before the first.
C23_Witness ==
    /\ Collected_All
    /\ max_workers = 2
    /\ SucceededItems = {1, 2}
    /\ Len(cb_log) = 2
    /\ cb_log[1][3] = 2
    /\ Len(llm_result.data.results) >= 2
    /\ llm_result.tokens_used = Usage(1) + Usage(2)

\* C24: when every LLM call eventually returns or raises, a dispatched
\* execute_accounting_task eventually returns, as a success or a failure, with
\* every item collected; so no queued item waits forever.
C24_Terminates ==
    Dispatched ~> (/\ pc = "done"
                   /\ Returned(result)
                   /\ \A i \in DOMAIN fut : fut[i] = "collected")

\* A batch of MaxItems items went through a pool of fewer threads, more than
\* one, and the call returned.
C24_Witness ==
    /\ pc = "done"
    /\ Returned(result)
    /\ max_workers > 1
    /\ max_workers < MaxItems
    /\ Cardinality(DOMAIN fut) = MaxItems
    /\ \A i \in DOMAIN fut : fut[i] = "collected"

\* C25: on every return path of execute_accounting_task the engine's
\* excel_manager field is again the object it held before the call.
C25_ManagerRestored ==
    (pc = "done" /\ Returned(result)) => engine_excel_manager = "own"

\* C26: an exception raised by the progress callback leaves every item in the
\* list its processing put it in: once all items are collected, an item that
\* succeeded has no entry in processing_errors and a failed item has exactly
\* one; and the batch is not aborted.
C26_CallbackDoesNotMoveItems ==
    Collected_All =>
        /\ \A i \in DOMAIN fut : fut[i] = "collected"
        /\ \A i \in SucceededItems : ErrorsFor(i) = <<>>
        /\ \A i \in FailedItems : Len(ErrorsFor(i)) = 1

\* C27: a run that produced no record at all, because every item failed or
\* every successful item returned an empty results list, returns success =
\* false, never calls write_results and leaves the workbook as it was.
C27_NoRecordNoWrite ==
    (pc = "done" /\ Dispatched /\ all_results = <<>>) =>
        /\ Returned(result)
        /\ ~result.success
        /\ write_calls = 0
        /\ workbook = InitialWorkbook

\* Two items were collected, one failed and one succeeded with an empty results
\* list, the workbook was loaded and the column definitions were usable.
C27_Witness ==
    /\ pc = "done"
    /\ Cardinality(DOMAIN fut) = 2
    /\ all_results = <<>>
    /\ SucceededItems # {}
    /\ FailedItems # {}
    /\ excel_manager = "loaded"
    /\ output_config.cols = "ok"
    /\ ~result.success

\* C28: in a successful result of execute_accounting_task the summary agrees
\* with the aggregate: processed_data_count is the number of aggregated records
\* and of written rows, failed_data_count is the number of entries in
\* processing_errors, and total_data_count is the number of submitted items.
C28_SummaryConsistent ==
    (pc = "done" /\ Returned(result) /\ result.success) =>
        /\ result.summary.processed_data_count = Len(all_results)
        /\ result.summary.processed_data_count = Len(result.llm_result.data.results)
        /\ result.summary.written_rows = Len(all_results)
        /\ result.summary.written_rows = Len(workbook.rows)
        /\ result.summary.failed_data_count = Len(processing_errors)
        /\ result.summary.failed_data_count = Len(result.llm_result.processing_errors)
        /\ result.summary.total_data_count = Cardinality(DOMAIN fut)
        /\ result.summary.total_data_count = NumItems

\* A successful run of two items: one gave two records, the other failed and
\* the callback raised for it, so there are two error entries for one item.
C28_Witness ==
    /\ pc = "done"
    /\ result.success
    /\ result.summary.total_data_count = 2
    /\ result.summary.processed_data_count = 2
    /\ result.summary.written_rows = 2
    /\ result.summary.failed_data_count = 2
    /\ Cardinality(FailedItems) = 1

\* The rule ids of the call that the rule store holds, in the order given.
KnownRuleIds == SelectSeq(inv_rule_ids, LAMBDA r : r \in RuleStore)

\* C29: a check_invoice call that was not refused returns one check record per
\* rule id of rule_ids that the rule store holds, in the order of rule_ids;
\* unknown ids are skipped, and a rule whose application raised has an error
\* record at its place while the later rules are applied all the same.
C29_OneCheckPerKnownRule ==
    (inv_pc = "done" /\ InvoiceRefused = "none") =>
        /\ "checks" \in DOMAIN inv_result
        /\ Len(inv_result.checks) = Len(KnownRuleIds)
        /\ Len(inv_llm) = Len(KnownRuleIds)
        /\ \A k \in 1..Len(KnownRuleIds) :
              /\ inv_result.checks[k].rule_name = KnownRuleIds[k]
              /\ inv_llm[k].kind = "raise" =>
                    /\ inv_result.checks[k].severity = "error"
                    /\ inv_result.checks[k].message = "apply_error"

\* The first of MaxRuleIds known rules raised and the last one was applied and
\* passed.
C29_Witness ==
    /\ inv_pc = "done"
    /\ "checks" \in DOMAIN inv_result
    /\ Len(inv_rule_ids) = MaxRuleIds
    /\ Len(inv_result.checks) = MaxRuleIds
    /\ inv_llm[1].kind = "raise"
    /\ inv_result.checks[1].message = "apply_error"
    /\ "passed" \in DOMAIN inv_result.checks[MaxRuleIds]
    /\ inv_result.checks[MaxRuleIds].passed

\* C30: a batch invoice check gives exactly one result per input file whatever
\* the completion order and whichever files fail: check_invoices_async returns
\* a list as long as files_data whose i-th entry is what the check of the i-th
\* file returned, or an error entry naming that file when its check raised;
\* run_invoice_check stores exactly one entry per selected file name, the
\* result of that file or its error.
C30_OneResultPerFile ==
    /\ async_pc = "returned" =>
          /\ Len(async_return) = Len(files_data)
          /\ \A i \in 1..Len(files_data) :
                IF Raised(task_result[i])
                THEN /\ DOMAIN async_return[i] = {"file_name", "error"}
                     /\ async_return[i].error = task_result[i].raised
                     /\ "file_name" \in DOMAIN files_data[i] =>
                           async_return[i].file_name = files_data[i].file_name
                ELSE async_return[i] = task_result[i]
    /\ run_pc = "returned" =>
          /\ DOMAIN check_results = {selected_files[i].file_name : i \in 1..Len(selected_files)}
          /\ Cardinality(DOMAIN check_results) = Len(selected_files)
          /\ \A i \in 1..Len(selected_files) :
                LET entry == check_results[selected_files[i].file_name]
                IN  IF Raised(future_result[i])
                    THEN entry = [error |-> future_result[i].raised]
                    ELSE entry = future_result[i]

\* Both calls returned for MaxFiles files each. In check_invoices_async the
\* last file finished first and the check of the first one raised; in
\* run_invoice_check, run by MaxWorkers threads, the last file finished first,
\* its check raised and the check of the first file returned its checks.
C30_Witness ==
    /\ async_pc = "returned"
    /\ Len(files_data) = MaxFiles
    /\ task_order[1] = MaxFiles
    /\ Raised(task_result[1])
    /\ "error" \in DOMAIN async_return[1]
    /\ "checks" \in DOMAIN async_return[MaxFiles]
    /\ run_pc = "returned"
    /\ Len(selected_files) = MaxFiles
    /\ session_max_workers = MaxWorkers
    /\ future_order[1] = MaxFiles
    /\ Raised(future_result[MaxFiles])
    /\ "error" \in DOMAIN check_results[selected_files[MaxFiles].file_name]
    /\ "checks" \in DOMAIN check_results[selected_files[1].file_name]
====
